---------------------------- MODULE Spec2Model ----------------------------
(***************************************************************************)
(* Predator-prey simulation engine (smallworlds): Organism, Population and *)
(* Simulation, as a state machine.                                         *)
(*                                                                         *)
(* Organisms are heap objects; an organism is named by its index in the    *)
(* heap `organisms` (the order of construction).  The lists of the code    *)
(* (living_individuals, dead_individuals, neighbours, offspring) are       *)
(* sequences of such indices, so duplicates and iteration order are kept.  *)
(*                                                                         *)
(* The environment is the box x = cfg.x, y = 0, so every position is       *)
(* (px, 0) and is written px; a distance is |px - qx|.                     *)
(***************************************************************************)
EXTENDS Integers, Sequences, FiniteSets, TLC

\* Bound on the number of Organism objects ever constructed in one run.
MaxOrganisms == 14

\* Bound on the number of epochs one run completes (over all start_simulation calls).
MaxEpoch == 2

\* Bound on the number of start_simulation calls in one run.
MaxStarts == 2

(***************************************************************************)
(* Constructor arguments of Simulation: time_per_epoch,                    *)
(* neighbour_update_interval, environment_config (style and dimensions)    *)
(* and populations_configs (individuals_specs plus initial_size), in the   *)
(* order given by the caller.                                              *)
(***************************************************************************)
PredatorSpecs(speed, feeding_range, feeding_chance, initial_size) ==
    [species_name |-> "predator", trophic_level |-> 2, speed |-> speed,
     base_hunger |-> 1, feeding_range |-> feeding_range,
     feeding_chance |-> feeding_chance, offspring_chance |-> 100,
     litter_size |-> 1, initial_size |-> initial_size]

PreySpecs(speed, base_hunger, offspring_chance, initial_size) ==
    [species_name |-> "prey", trophic_level |-> 1, speed |-> speed,
     base_hunger |-> base_hunger, feeding_range |-> 1,
     feeding_chance |-> 100, offspring_chance |-> offspring_chance,
     litter_size |-> 1, initial_size |-> initial_size]

Configs ==
    { \* two ticks per epoch, a refresh every tick after the first
      [time_per_epoch |-> 1, neighbour_update_interval |-> 1, x |-> 1,
       style |-> "rectangular_non_periodic",
       populations_configs |-> << PreySpecs(0, 0, 50, 8),
                                  PredatorSpecs(1, 1, 50, 4) >>],
      \* one tick per epoch, a refresh every tick, nobody moves
      [time_per_epoch |-> 0, neighbour_update_interval |-> 0, x |-> 1,
       style |-> "rectangular_non_periodic",
       populations_configs |-> << PreySpecs(0, 5, 100, 4),
                                  PredatorSpecs(0, 1, 50, 4) >>],
      \* a wide box and a long feeding range
      [time_per_epoch |-> 1, neighbour_update_interval |-> 1, x |-> 5,
       style |-> "rectangular_non_periodic",
       populations_configs |-> << PreySpecs(1, 5, 100, 4),
                                  PredatorSpecs(1, 4, 100, 4) >>],
      \* feeding always succeeds, litters of two
      [time_per_epoch |-> 0, neighbour_update_interval |-> 0, x |-> 1,
       style |-> "rectangular_non_periodic",
       populations_configs |-> << PreySpecs(0, 5, 100, 4),
                                  [PredatorSpecs(0, 1, 100, 4)
                                     EXCEPT !.litter_size = 2] >>],
      \* no population at all
      [time_per_epoch |-> 1, neighbour_update_interval |-> 1, x |-> 1,
       style |-> "rectangular_non_periodic",
       populations_configs |-> << >>],
      \* a style that Environment does not know
      [time_per_epoch |-> 1, neighbour_update_interval |-> 1, x |-> 1,
       style |-> "rectangular_periodic",
       populations_configs |-> << PreySpecs(0, 5, 100, 4),
                                  PredatorSpecs(1, 1, 50, 4) >>] }

VARIABLES
    cfg,                      \* the constructor arguments of the Simulation
    populations,              \* Simulation.populations: specs, sorted at construction
    living_individuals,       \* Population.living_individuals, per population index
    dead_individuals,         \* Population.dead_individuals, per population index
    organisms,                \* the heap: every Organism constructed so far
    ids,                      \* Organism.ids: species_name -> next id
    time,                     \* Simulation.time
    epoch,                    \* Simulation.epoch
    neighbour_update_ticks,   \* Simulation.neighbour_update_ticks
    neighbour_range,          \* Simulation.neighbour_range
    epochs_to_run,            \* local of start_simulation
    pc,                       \* control point of the running call
    raised,                   \* the exception that left the constructor, if any
    pop_index,                \* position of `for pop in self.populations`
    ind_index,                \* position of `for individual in self.living_individuals`
    starts,                   \* number of start_simulation calls made
    born,                     \* history: organisms constructed by produce_offspring this epoch
    eaten,                    \* history: organisms be_eaten was applied to this epoch
    pass_start,               \* history: living_individuals when the running pass began
    pass_visited,             \* history: the individuals the running pass has visited
    call,                     \* history: the running start_simulation call
    ev                        \* history: the last step taken and what it observed

vars == << cfg, populations, living_individuals, dead_individuals, organisms, ids,
           time, epoch, neighbour_update_ticks, neighbour_range, epochs_to_run,
           pc, raised, pop_index, ind_index, starts, born, eaten, pass_start,
           pass_visited, call, ev >>

----------------------------------------------------------------------------
(* Sequence helpers *)

\* No exception.
NoException == [type |-> "none", message |-> << >>]

Range(s) == { s[i] : i \in DOMAIN s }

Max(S) == CHOOSE m \in S : \A n \in S : n <= m

Abs(n) == IF n < 0 THEN -n ELSE n

\* list.remove(e): drops the first occurrence of e (a list without e is an error).
RemoveFirst(s, e) ==
    LET i == CHOOSE k \in DOMAIN s : s[k] = e /\ \A j \in 1..(k - 1) : s[j] # e
    IN  SubSeq(s, 1, i - 1) \o SubSeq(s, i + 1, Len(s))

\* Number of occurrences of e in s.
Count(s, e) == Cardinality({ i \in DOMAIN s : s[i] = e })

RECURSIVE Concat(_, _)
\* f[1] \o f[2] \o ... \o f[n]
Concat(f, n) == IF n = 0 THEN << >> ELSE Concat(f, n - 1) \o f[n]

----------------------------------------------------------------------------
(* Navigator: nav = [x |-> width of the box, instance |-> the object's address] *)

\* Navigator.is_in_range / calculate_distance
is_in_range(position_a, position_b, threshold) ==
    Abs(position_b - position_a) <= threshold

\* Navigator.correct_trajectory: elastic reflection at the walls 0 and x.
correct_trajectory(nav, position, velocity) ==
    IF position < 0 THEN [position |-> -position, velocity |-> -velocity]
    ELSE IF position > nav.x
         THEN [position |-> 2 * nav.x - position, velocity |-> -velocity]
         ELSE [position |-> position, velocity |-> velocity]

\* Navigator.move(position, speed, neighbours): the strategy picks a unit
\* orientation, advances by speed along it and applies the boundary rule.
\* The set of (position, orientation) pairs it may return.
NavigatorMove(nav, position, speed) ==
    { LET c == correct_trajectory(nav, position + o * speed, o)
      IN  [position |-> c.position, orientation |-> c.velocity] : o \in {-1, 1} }

\* Navigator.initialize: a random position of the box, and a unit orientation
\* with non-negative components.
NavigatorInitialize(nav) == { [position |-> p, orientation |-> 1] : p \in 0..nav.x }

\* Navigator.get_replica: a new object (at the address given) of the same
\* class with the same dimensions.
get_replica(nav, address) == [x |-> nav.x, instance |-> address]

----------------------------------------------------------------------------
(* Organism *)

\* Organism.is_successful_attempt: the possible results of
\* random.randint(0, 100) <= reference.
is_successful_attempt(reference) == { d <= reference : d \in 0..100 }

\* Organism.get_new_id that registers a species and never advances its counter.
get_new_id_stuck(idtab, species_name) ==
    LET cur == IF species_name \in DOMAIN idtab THEN idtab[species_name] ELSE 1
    IN  [new_id |-> cur,
         ids |-> [s \in DOMAIN idtab \cup {species_name} |->
                    IF s = species_name THEN cur ELSE idtab[s]]]

\* Organism.get_new_id: (new_id, ids afterwards)
get_new_id(idtab, species_name) ==
    LET cur == IF species_name \in DOMAIN idtab THEN idtab[species_name] ELSE 1
    IN  [new_id |-> cur,
         ids |-> [s \in DOMAIN idtab \cup {species_name} |->
                    IF s = species_name THEN cur + 1 ELSE idtab[s]]]

\* Organism.__init__: the object built at `address` from the species
\* parameters `specs`, the navigator to replicate and the id get_new_id
\* returned.  The replica the organism keeps is addressed like its owner.
NewOrganism(specs, navigator, id, address) ==
    [species_name |-> specs.species_name, trophic_level |-> specs.trophic_level,
     navigator |-> get_replica(navigator, address), speed |-> specs.speed,
     base_hunger |-> specs.base_hunger, feeding_range |-> specs.feeding_range,
     feeding_chance |-> specs.feeding_chance,
     offspring_chance |-> specs.offspring_chance, litter_size |-> specs.litter_size,
     id |-> id, offspring |-> << >>, neighbours |-> << >>, hunger |-> 0,
     position |-> 0, velocity |-> 0, is_alive |-> FALSE]

\* Organism.outrank
outrank(h, self, neighbour) == h[self].trophic_level > h[neighbour].trophic_level

\* The food an organism of the given base_hunger turns into (be_eaten).
food_of(base_hunger) == (base_hunger \div 5) + 1

\* Organism.be_eaten that also clears the hunger of the organism eaten.
be_eaten_drained(h, o) ==
    [organisms |-> [h EXCEPT ![o].is_alive = FALSE, ![o].hunger = 0],
     food |-> food_of(h[o].base_hunger)]

\* Organism.be_eaten: the organism dies and is turned into food.
be_eaten(h, o) ==
    [organisms |-> [h EXCEPT ![o].is_alive = FALSE],
     food |-> food_of(h[o].base_hunger)]

\* Organism.feed with the sign reversed: the food is added to the hunger.
feed_adds(h, o, food) == [h EXCEPT ![o].hunger = @ + food]

\* Organism.feed
feed(h, o, food) == [h EXCEPT ![o].hunger = @ - food]

\* Organism.remove_from_neighbours
remove_from_neighbours(h, o, neighbour) ==
    [h EXCEPT ![o].neighbours = RemoveFirst(@, neighbour)]

\* Organism.is_in_range (feeding range, from the organism's own position)
in_feeding_range(h, self, neighbour) ==
    is_in_range(h[self].position, h[neighbour].position, h[self].feeding_range)

\* Organism.is_satiated with a strict comparison: hunger 0 is not satiated.
is_satiated_strict(h, o) == h[o].hunger < 0

\* Organism.is_satiated
is_satiated(h, o) == h[o].hunger <= 0

\* Organism.move: the heaps one move may leave.
move(h, o) ==
    { [h EXCEPT ![o].position = m.position,
                ![o].velocity = h[o].speed * m.orientation] :
        m \in NavigatorMove(h[o].navigator, h[o].position, h[o].speed) }

\* Organism.eat's feeding event with the receiver of be_eaten mixed up: the
\* eater is the one turned into food.
consume_eater(h, self, neighbour) ==
    LET e == be_eaten(h, self)
    IN  [organisms |-> feed(e.organisms, self, e.food), prey |-> neighbour,
         seen_dead |-> {}]

\* Organism.eat, the body of the loop when the neighbour is alive, outranked
\* and in range and the feeding attempt succeeds: the outcome
\* [organisms, prey, seen_dead].
consume(h, self, neighbour) ==
    LET e == be_eaten(h, neighbour)
    IN  [organisms |-> feed(e.organisms, self, e.food), prey |-> neighbour,
         seen_dead |-> {}]

RECURSIVE eat_from(_, _, _)
\* Organism.eat from list index i on (the list iterator of `for neighbour in
\* self.neighbours` advances by index while the loop body shrinks the list).
\* The set of outcomes: the heap left, the prey consumed (0: none) and the
\* neighbours seen dead.
eat_from(h, self, i) ==
    IF i > Len(h[self].neighbours)
    THEN { [organisms |-> h, prey |-> 0, seen_dead |-> {}] }
    ELSE LET neighbour == h[self].neighbours[i] IN
         IF h[neighbour].is_alive
         THEN IF outrank(h, self, neighbour) /\ in_feeding_range(h, self, neighbour)
              THEN UNION { IF success THEN { consume(h, self, neighbour) }
                                      ELSE eat_from(h, self, i + 1) :
                           success \in is_successful_attempt(h[self].feeding_chance) }
              ELSE eat_from(h, self, i + 1)
         ELSE { [r EXCEPT !.seen_dead = @ \cup {neighbour}] :
                r \in eat_from(remove_from_neighbours(h, self, neighbour), self, i + 1) }

\* Organism.eat without the test of is_alive: the first neighbour that is
\* outranked and in range is consumed, dead or alive.
eat_blind(h, self) ==
    LET nb == h[self].neighbours
        ok == { i \in DOMAIN nb : /\ outrank(h, self, nb[i])
                                  /\ in_feeding_range(h, self, nb[i]) }
    IN  IF ok = {} THEN { [organisms |-> h, prey |-> 0, seen_dead |-> {}] }
        ELSE { consume(h, self, nb[CHOOSE i \in ok : \A j \in ok : i <= j]) }

\* Organism.eat
eat(h, self) == eat_from(h, self, 1)

RECURSIVE produce_from(_, _, _, _)
\* Organism.produce_offspring, n children still to construct.
\* st = [organisms, ids]; each child is built by Organism.__init__.
produce_from(st, self, n, children) ==
    IF n <= 0 THEN [organisms |-> st.organisms, ids |-> st.ids, children |-> children]
    ELSE LET parent == st.organisms[self]
             g      == get_new_id(st.ids, parent.species_name)
             child  == Len(st.organisms) + 1
             h1     == Append(st.organisms,
                              NewOrganism(parent, get_replica(parent.navigator, -child),
                                          g.new_id, child))
             h2     == [h1 EXCEPT ![self].offspring = Append(@, child)]
         IN  produce_from([organisms |-> h2, ids |-> g.ids], self, n - 1,
                          Append(children, child))

\* Organism.produce_offspring
produce_offspring(st, self) ==
    produce_from(st, self, st.organisms[self].litter_size, << >>)

\* Organism.reproduce: the set of outcomes [organisms, ids, children].
reproduce(st, self) ==
    IF is_satiated(st.organisms, self)
    THEN { IF success THEN produce_offspring(st, self)
                      ELSE [organisms |-> st.organisms, ids |-> st.ids, children |-> << >>] :
           success \in is_successful_attempt(st.organisms[self].offspring_chance) }
    ELSE { [organisms |-> st.organisms, ids |-> st.ids, children |-> << >>] }

\* Organism.advance_time: move, eat, reproduce.  The set of outcomes
\* [organisms, ids, prey, seen_dead, children, at_eat] where at_eat is the
\* heap on which eat ran (after the move).
organism_advance_time(h, idtab, self) ==
    UNION { UNION { { [organisms |-> r.organisms, ids |-> r.ids, prey |-> e.prey,
                       seen_dead |-> e.seen_dead, children |-> r.children,
                       at_eat |-> moved] :
                      r \in reproduce([organisms |-> e.organisms, ids |-> idtab], self) } :
                    e \in eat(moved, self) } :
            moved \in move(h, self) }

\* Organism.reset, with the (position, orientation) the navigator drew.
reset(h, o, init) ==
    [h EXCEPT ![o].position = init.position, ![o].velocity = init.orientation,
              ![o].hunger = h[o].base_hunger, ![o].is_alive = TRUE,
              ![o].offspring = << >>, ![o].neighbours = << >>]

----------------------------------------------------------------------------
(* Population: pops is Simulation.populations, a population being its
   species_name, trophic_level and individuals_specs *)

\* Population.create_individual: constructs one Organism from
\* individuals_specs and appends it to living_individuals.
\* st = [organisms, ids, living]; p is the place the population takes in the
\* sorted list.
create_individual(st, specs, navigator, p) ==
    LET g == get_new_id(st.ids, specs.species_name)
    IN  [organisms |-> Append(st.organisms,
                              NewOrganism(specs, navigator, g.new_id,
                                          Len(st.organisms) + 1)),
         ids |-> g.ids,
         living |-> [st.living EXCEPT ![p] = Append(@, Len(st.organisms) + 1)]]

RECURSIVE create_individuals(_, _, _, _, _)
\* Population.__init__: `for i in range(initial_size): self.create_individual()`
create_individuals(st, specs, navigator, p, n) ==
    IF n <= 0 THEN st
    ELSE create_individuals(create_individual(st, specs, navigator, p),
                            specs, navigator, p, n - 1)

\* Population.add_individual
add_individual(living, organism) == Append(living, organism)

\* Population.remove_individual that stashes the individual and forgets to
\* take it out of living_individuals.
remove_individual_stash_only(living, dead, individual) ==
    [dead |-> Append(dead, individual), living |-> living, raised |-> NoException]

\* Population.remove_individual: [living, dead, raised] afterwards.  The
\* append to dead_individuals comes first; list.remove raises ValueError when
\* the individual is not in living_individuals.
remove_individual(living, dead, individual) ==
    IF individual \in Range(living)
    THEN [dead |-> Append(dead, individual),
          living |-> RemoveFirst(living, individual),
          raised |-> NoException]
    ELSE [dead |-> Append(dead, individual),
          living |-> living,
          raised |-> [type |-> "ValueError",
                      message |-> << "list.remove(x): x not in list" >>]]

RECURSIVE add_offspring(_, _, _)
\* `for child in individual.offspring: self.add_individual(child)`
add_offspring(living, offspring, i) ==
    IF i > Len(offspring) THEN living
    ELSE add_offspring(add_individual(living, offspring[i]), offspring, i + 1)

\* The list of Population.advance_epoch without the dead: only the living
\* are harvested.
epoch_list_living(living, dead) == living

\* The list Population.advance_epoch iterates over.
epoch_list(living, dead) == dead \o living

RECURSIVE epoch_loop(_, _, _, _, _)
\* The loop of Population.advance_epoch over the list built when the loop
\* starts; draw[o] is what the navigator returns to o's reset.
\* Returns [organisms, living].
epoch_loop(h, living, todo, i, draw) ==
    IF i > Len(todo) THEN [organisms |-> h, living |-> living]
    ELSE LET individual == todo[i]
         IN  epoch_loop(reset(h, individual, draw[individual]),
                        add_offspring(living, h[individual].offspring, 1),
                        todo, i + 1, draw)

\* Population.reset_dead_individuals that forgets to empty the list.
reset_dead_individuals_kept(dead) == dead

\* Population.reset_dead_individuals
reset_dead_individuals(dead) == << >>

\* Population.advance_epoch: [organisms, living, dead] afterwards.
population_advance_epoch(h, living, dead, draw) ==
    LET r == epoch_loop(h, living, epoch_list(living, dead), 1, draw)
    IN  [organisms |-> r.organisms, living |-> r.living,
         dead |-> reset_dead_individuals(dead)]

----------------------------------------------------------------------------
(* Simulation *)

RECURSIVE insert_by_level(_, _)
\* One step of the stable sort by descending trophic_level.
insert_by_level(sorted, pop) ==
    IF sorted = << >> THEN << pop >>
    ELSE IF sorted[Len(sorted)].trophic_level >= pop.trophic_level
         THEN Append(sorted, pop)
         ELSE Append(insert_by_level(SubSeq(sorted, 1, Len(sorted) - 1), pop),
                     sorted[Len(sorted)])

\* The populations left in the order the caller gave them.
sort_populations_skipped(configs, n) == SubSeq(configs, 1, n)

RECURSIVE sort_populations(_, _)
\* self.populations.sort(key=lambda pop: pop.trophic_level, reverse=True)
sort_populations(configs, n) ==
    IF n = 0 THEN << >>
    ELSE insert_by_level(sort_populations(configs, n - 1), configs[n])

\* The place each given population takes in the sorted list.
sorted_places(configs) ==
    [c \in DOMAIN configs |->
       Cardinality({ d \in DOMAIN configs :
           \/ configs[d].trophic_level > configs[c].trophic_level
           \/ configs[d].trophic_level = configs[c].trophic_level /\ d <= c })]

\* Simulation.calculate_neighbour_range
calculate_neighbour_range(pops, neighbour_update_interval) ==
    Max({ pops[p].speed : p \in DOMAIN pops }) * (2 * neighbour_update_interval + 2)

\* Simulation.is_in_neighbour_range
is_in_neighbour_range(h, range, ind_i, ind_j) ==
    is_in_range(h[ind_i].position, h[ind_j].position, range)

\* The condition of update_neighbours under which population i tracks population j.
tracks(pops, pop_index_i, pop_index_j) ==
    /\ pop_index_j >= pop_index_i
    /\ pops[pop_index_i].trophic_level > pops[pop_index_j].trophic_level

\* What one update_neighbours call appends to the neighbour list of ind_i
\* as an individual of population i.
linked(h, pops, living, range, pop_index_i, ind_i) ==
    Concat([pop_index_j \in DOMAIN pops |->
              IF tracks(pops, pop_index_i, pop_index_j)
              THEN SelectSeq(living[pop_index_j],
                             LAMBDA ind_j : is_in_neighbour_range(h, range, ind_i, ind_j))
              ELSE << >>], Len(pops))

\* Simulation.update_neighbours: the heap afterwards.
update_neighbours(h, pops, living, range) ==
    [o \in DOMAIN h |->
        [h[o] EXCEPT !.neighbours =
            @ \o Concat([pop_index_i \in DOMAIN pops |->
                           IF o \in Range(living[pop_index_i])
                           THEN linked(h, pops, living, range, pop_index_i, o)
                           ELSE << >>], Len(pops))]]

RECURSIVE construct_populations(_, _, _, _)
\* Simulation.__init__: `for pop_config in populations_configs:
\* self.populations.append(population.Population(**pop_config))`, the first c
\* of them.
construct_populations(configs, navigator, places, c) ==
    IF c = 0
    THEN [organisms |-> << >>, ids |-> [s \in {} |-> 0],
          living |-> [p \in DOMAIN configs |-> << >>]]
    ELSE create_individuals(construct_populations(configs, navigator, places, c - 1),
                            configs[c], navigator, places[c], configs[c].initial_size)

RECURSIVE rollover(_, _, _, _, _)
\* Simulation.advance_epoch: `for pop in self.populations: pop.advance_epoch()`
\* from population p on.
rollover(h, living, dead, p, draw) ==
    IF p > Len(living) THEN [organisms |-> h, living |-> living, dead |-> dead]
    ELSE LET r == population_advance_epoch(h, living[p], dead[p], draw)
         IN  rollover(r.organisms, [living EXCEPT ![p] = r.living],
                      [dead EXCEPT ![p] = r.dead], p + 1, draw)

\* An organism no list refers to any more: its memory is reclaimed.
Collected(o) ==
    [o EXCEPT !.offspring = << >>, !.neighbours = << >>, !.hunger = 0,
              !.position = 0, !.velocity = 0, !.is_alive = FALSE]

\* The heap once the organisms that no population holds are reclaimed.
collect(h, living) ==
    [o \in DOMAIN h |->
        IF \E p \in DOMAIN living : o \in Range(living[p]) THEN h[o]
        ELSE Collected(h[o])]

\* The keys of Environment.available_navigators.
available_navigators == << "rectangular_non_periodic" >>

\* Environment.__init__ that falls back on the rectangular box for a style it
\* does not know, and raises nothing.
Environment_fallback(style, x) ==
    [raised |-> NoException, navigator |-> [x |-> x, instance |-> 0]]

\* Environment.__init__: the navigator built for the style, or the
\* UnknownEnvironment raised; its message is the style, the fixed text and the
\* known styles, in this order.
Environment(style, x) ==
    IF style \notin Range(available_navigators)
    THEN [raised |-> [type |-> "UnknownEnvironment",
                      message |-> << style,
                                     " is not a recognized environment. currently implemented environments are: " >>
                                  \o available_navigators],
          navigator |-> [x |-> 0, instance |-> 0]]
    ELSE [raised |-> NoException, navigator |-> [x |-> x, instance |-> 0]]

\* Simulation.__init__: the state the constructor leaves, with the exception
\* that ended it if one did (neighbour_range -1: the attribute was never set).
Simulation(c) ==
    LET env    == Environment(c.style, c.x)
        sorted == sort_populations(c.populations_configs, Len(c.populations_configs))
        built  == construct_populations(c.populations_configs, env.navigator,
                                        sorted_places(c.populations_configs),
                                        Len(c.populations_configs))
    IN  IF env.raised # NoException
        THEN [raised |-> env.raised, populations |-> << >>, organisms |-> << >>,
              ids |-> [s \in {} |-> 0], living |-> << >>, neighbour_range |-> -1]
        ELSE IF sorted = << >>
             \* max(speeds) of an empty list
             THEN [raised |-> [type |-> "ValueError", message |-> << >>],
                   populations |-> sorted, organisms |-> built.organisms,
                   ids |-> built.ids, living |-> built.living,
                   neighbour_range |-> -1]
             ELSE [raised |-> NoException,
                   populations |-> sorted, organisms |-> built.organisms,
                   ids |-> built.ids, living |-> built.living,
                   neighbour_range |->
                       calculate_neighbour_range(sorted, c.neighbour_update_interval)]

----------------------------------------------------------------------------
(* History *)

\* The history record of a step: the operation, the organism it ran for, and
\* what the operation observed.
NoEvent ==
    [op |-> "construct", who |-> 0, prey |-> 0, seen_dead |-> {}, missed |-> {},
     who_offspring |-> << >>, first_eligible |-> 0, eaten_before |-> {},
     ticks_before |-> 0, population |-> 0,
     killed |-> {}, children |-> << >>, refreshed |-> FALSE, born |-> {},
     eaten |-> {}, living_before |-> << >>, dead_before |-> << >>,
     offspring_before |-> << >>, dead_offspring_before |-> << >>,
     hunger_before |-> << >>]

\* The history record of a step taken from the current state.
Event(op) ==
    [NoEvent EXCEPT !.op = op,
                    !.hunger_before = [o \in DOMAIN organisms |-> organisms[o].hunger]]

\* The living organisms of strictly lower trophic level that are within the
\* feeding range of self on heap h and are not in the neighbour list nb.
not_tracked(h, self, nb) ==
    { q \in DOMAIN h : /\ h[q].is_alive
                       /\ outrank(h, self, q)
                       /\ in_feeding_range(h, self, q)
                       /\ q \notin Range(nb) }

\* The first neighbour of self, in list order, that is alive, of strictly lower
\* trophic level and within feeding range on heap h (0: there is none).
first_eligible(h, self) ==
    LET nb == h[self].neighbours
        ok == { i \in DOMAIN nb : /\ h[nb[i]].is_alive
                                  /\ outrank(h, self, nb[i])
                                  /\ in_feeding_range(h, self, nb[i]) }
    IN  IF ok = {} THEN 0 ELSE nb[CHOOSE i \in ok : \A j \in ok : i <= j]

\* The organisms whose is_alive flag a step turned from true to false.
Killed(before, after) ==
    { q \in DOMAIN before : before[q].is_alive /\ ~ after[q].is_alive }

RECURSIVE TotalOffspring(_, _, _)
\* Sum of len(offspring) over list[1..i].
TotalOffspring(h, list, i) ==
    IF i = 0 THEN 0 ELSE TotalOffspring(h, list, i - 1) + Len(h[list[i]].offspring)

----------------------------------------------------------------------------
(* Construction *)

NPop == Len(populations)

Init ==
    /\ cfg \in Configs
    /\ \E built \in { Simulation(cfg) } :
           /\ raised = built.raised
           /\ populations = built.populations
           /\ organisms = built.organisms
           /\ ids = built.ids
           /\ living_individuals = built.living
           /\ dead_individuals = [p \in DOMAIN built.living |-> << >>]
           /\ neighbour_range = built.neighbour_range
           /\ pc = IF built.raised = NoException THEN "idle" ELSE "raised"
    /\ time = 0
    /\ epoch = 0
    /\ neighbour_update_ticks = 0
    /\ epochs_to_run = 0
    /\ pop_index = 0
    /\ ind_index = 0
    /\ starts = 0
    /\ born = {}
    /\ eaten = {}
    /\ pass_start = << >>
    /\ pass_visited = << >>
    /\ call = [requested |-> 0, start_epoch |-> 0, ticks |-> 0, rollovers |-> 0]
    /\ ev = NoEvent

----------------------------------------------------------------------------
(* Steps *)

\* The loop condition of start_simulation with a strict comparison.
tick_loop_continues_strict(now, time_per_epoch) == now < time_per_epoch

\* start_simulation: `while self.time <= self.time_per_epoch`
tick_loop_continues(now, time_per_epoch) == now <= time_per_epoch

Individual == living_individuals[pop_index][ind_index]

\* Simulation.update_neighbours on the current state.
Refreshed == update_neighbours(organisms, populations, living_individuals, neighbour_range)

\* Simulation.start_simulation(epochs_to_run), up to the first test of the loop.
StartSimulation ==
    /\ pc = "idle"
    /\ starts < MaxStarts
    /\ \E n \in 0..(MaxEpoch - epoch) :
          /\ epochs_to_run' = n
          /\ call' = [requested |-> n, start_epoch |-> epoch, ticks |-> 0,
                      rollovers |-> 0]
    /\ time' = 0
    /\ organisms' = Refreshed
    /\ pc' = "epochs"
    /\ starts' = starts + 1
    /\ ev' = [Event("start_simulation") EXCEPT !.refreshed = TRUE]
    /\ UNCHANGED << cfg, raised, populations, living_individuals, dead_individuals, ids,
                    epoch, neighbour_update_ticks, neighbour_range, pop_index,
                    ind_index, born, eaten, pass_start, pass_visited >>

\* start_simulation: `while epochs_to_run:` is false; the call returns.
Return ==
    /\ pc = "epochs"
    /\ epochs_to_run = 0
    /\ pc' = "idle"
    /\ ev' = Event("return")
    /\ UNCHANGED << cfg, raised, call, populations, living_individuals, dead_individuals,
                    organisms, ids, time, epoch, neighbour_update_ticks,
                    neighbour_range, epochs_to_run, pop_index, ind_index, starts,
                    born, eaten, pass_start, pass_visited >>

\* Simulation.advance_time, up to the first population's pass.
BeginTick ==
    /\ pc = "epochs"
    /\ epochs_to_run > 0
    /\ tick_loop_continues(time, cfg.time_per_epoch)
    /\ LET refresh == neighbour_update_ticks >= cfg.neighbour_update_interval
       IN  /\ organisms' = IF refresh
                           THEN Refreshed
                           ELSE organisms
           /\ ev' = [Event("begin_tick") EXCEPT !.refreshed = refresh]
    /\ pc' = "populations"
    /\ pop_index' = 1
    /\ ind_index' = 1
    /\ pass_start' = living_individuals[1]
    /\ pass_visited' = << >>
    /\ UNCHANGED << cfg, raised, call, populations, living_individuals, dead_individuals, ids,
                    time, epoch, neighbour_update_ticks, neighbour_range,
                    epochs_to_run, starts, born, eaten >>

\* Population.advance_time, one iteration on an individual that is alive:
\* Organism.advance_time.
OrganismAdvanceTime ==
    /\ pc = "populations"
    /\ ind_index <= Len(living_individuals[pop_index])
    /\ organisms[Individual].is_alive
    /\ \E r \in organism_advance_time(organisms, ids, Individual) :
          /\ Len(r.organisms) <= MaxOrganisms
          /\ organisms' = r.organisms
          /\ ids' = r.ids
          /\ born' = born \cup { [child |-> c, parent |-> Individual] :
                                     c \in Range(r.children) }
          /\ eaten' = eaten \cup Killed(organisms, r.organisms)
          /\ ev' = [Event("advance_time") EXCEPT
                      !.who = Individual, !.prey = r.prey,
                      !.killed = Killed(organisms, r.organisms),
                      !.seen_dead = r.seen_dead, !.children = r.children,
                      !.who_offspring = organisms[Individual].offspring,
                      !.first_eligible = first_eligible(r.at_eat, Individual),
                      !.eaten_before = eaten,
                      !.missed = not_tracked(r.at_eat, Individual,
                                             organisms[Individual].neighbours)]
    /\ ind_index' = ind_index + 1
    /\ pass_visited' = Append(pass_visited, Individual)
    /\ UNCHANGED << cfg, raised, call, populations, living_individuals, dead_individuals, time,
                    epoch, neighbour_update_ticks, neighbour_range, epochs_to_run,
                    pc, pop_index, starts, pass_start >>

\* Population.advance_time, one iteration on an individual that is not alive:
\* remove_individual.
RemoveIndividual ==
    /\ pc = "populations"
    /\ ind_index <= Len(living_individuals[pop_index])
    /\ ~ organisms[Individual].is_alive
    /\ LET r == remove_individual(living_individuals[pop_index],
                                  dead_individuals[pop_index], Individual)
       IN  /\ living_individuals' = [living_individuals EXCEPT ![pop_index] = r.living]
           /\ dead_individuals' = [dead_individuals EXCEPT ![pop_index] = r.dead]
           /\ raised' = r.raised
           /\ pc' = IF r.raised = NoException THEN pc ELSE "raised"
    /\ ind_index' = ind_index + 1
    /\ pass_visited' = Append(pass_visited, Individual)
    /\ ev' = [Event("remove_individual") EXCEPT !.who = Individual,
                                               !.population = pop_index]
    /\ UNCHANGED << cfg, call, populations, organisms, ids, time, epoch,
                    neighbour_update_ticks, neighbour_range, epochs_to_run,
                    pop_index, starts, born, eaten, pass_start >>

\* Simulation.advance_time: a population's pass is over, the next one begins.
NextPopulation ==
    /\ pc = "populations"
    /\ ind_index > Len(living_individuals[pop_index])
    /\ pop_index < NPop
    /\ pop_index' = pop_index + 1
    /\ ind_index' = 1
    /\ pass_start' = living_individuals[pop_index + 1]
    /\ pass_visited' = << >>
    /\ ev' = Event("next_population")
    /\ UNCHANGED << cfg, raised, call, populations, living_individuals, dead_individuals,
                    organisms, ids, time, epoch, neighbour_update_ticks,
                    neighbour_range, epochs_to_run, pc, starts, born, eaten >>

\* Simulation.advance_time: the last pass is over; the counters advance.
EndTick ==
    /\ pc = "populations"
    /\ ind_index > Len(living_individuals[pop_index])
    /\ pop_index = NPop
    /\ time' = time + 1
    /\ neighbour_update_ticks' = neighbour_update_ticks + 1
    /\ pc' = "epochs"
    /\ pop_index' = 0
    /\ ind_index' = 0
    /\ pass_start' = << >>
    /\ pass_visited' = << >>
    /\ call' = [call EXCEPT !.ticks = @ + 1]
    /\ ev' = Event("end_tick")
    /\ UNCHANGED << cfg, raised, populations, living_individuals, dead_individuals,
                    organisms, ids, epoch, neighbour_range, epochs_to_run, starts,
                    born, eaten >>

\* Simulation.advance_epoch and `epochs_to_run -= 1`.
AdvanceEpoch ==
    /\ pc = "epochs"
    /\ epochs_to_run > 0
    /\ ~ tick_loop_continues(time, cfg.time_per_epoch)
    /\ LET holders == UNION { Range(living_individuals[p]) : p \in 1..NPop }
       IN  \E draw \in [holders -> NavigatorInitialize([x |-> cfg.x])] :
           \E r \in { rollover(organisms, living_individuals, dead_individuals, 1,
                               [o \in DOMAIN organisms |->
                                  IF o \in holders THEN draw[o]
                                  ELSE [position |-> 0, orientation |-> 1]]) } :
               /\ living_individuals' = r.living
               /\ dead_individuals' = r.dead
               /\ organisms' = collect(update_neighbours(r.organisms, populations,
                                                         r.living, neighbour_range),
                                       r.living)
    /\ epoch' = epoch + 1
    /\ time' = 0
    /\ neighbour_update_ticks' = 0
    /\ epochs_to_run' = epochs_to_run - 1
    /\ born' = {}
    /\ eaten' = {}
    /\ call' = [call EXCEPT !.ticks = 0, !.rollovers = @ + 1]
    /\ ev' = [Event("advance_epoch") EXCEPT
                !.refreshed = TRUE, !.born = born, !.eaten = eaten,
                !.ticks_before = call.ticks,
                !.living_before = [p \in 1..NPop |-> Len(living_individuals[p])],
                !.dead_before = [p \in 1..NPop |-> Len(dead_individuals[p])],
                !.offspring_before =
                    [p \in 1..NPop |->
                       TotalOffspring(organisms, dead_individuals[p] \o living_individuals[p],
                                      Len(dead_individuals[p]) + Len(living_individuals[p]))],
                !.dead_offspring_before =
                    [p \in 1..NPop |->
                       TotalOffspring(organisms, dead_individuals[p],
                                      Len(dead_individuals[p]))]]
    /\ UNCHANGED << cfg, raised, populations, ids, neighbour_range, pc, pop_index,
                    ind_index, starts, pass_start, pass_visited >>

Next ==
    \/ StartSimulation
    \/ Return
    \/ BeginTick
    \/ OrganismAdvanceTime
    \/ RemoveIndividual
    \/ NextPopulation
    \/ EndTick
    \/ AdvanceEpoch

Spec == Init /\ [][Next]_vars

\* Population.remove_individual called from outside the simulation's own
\* loops, between two start_simulation calls: first with an individual the
\* population holds, then with one it does not hold (a stranger or the one
\* just removed).  An exception that leaves the call ends the run.
RemoveIndividualCall ==
    /\ pc \in {"idle", "client"}
    /\ \E p \in 1..NPop : \E o \in DOMAIN organisms :
          /\ pc = "idle" => o \in Range(living_individuals[p])
          /\ pc = "client" => o \notin Range(living_individuals[p])
          /\ LET r == remove_individual(living_individuals[p], dead_individuals[p], o)
             IN  /\ living_individuals' = [living_individuals EXCEPT ![p] = r.living]
                 /\ dead_individuals' = [dead_individuals EXCEPT ![p] = r.dead]
                 /\ raised' = r.raised
                 /\ pc' = IF r.raised = NoException THEN "client" ELSE "raised"
          /\ ev' = [Event("remove_individual_call") EXCEPT !.who = o,
                                                          !.population = p]
    /\ UNCHANGED << cfg, call, populations, organisms, ids, time, epoch,
                    neighbour_update_ticks, neighbour_range, epochs_to_run,
                    pop_index, ind_index, starts, born, eaten, pass_start,
                    pass_visited >>

\* The simulation with a client that also calls remove_individual itself.
ClientNext ==
    \/ Next
    \/ RemoveIndividualCall

ClientSpec == Init /\ [][ClientNext]_vars

----------------------------------------------------------------------------
(* Properties *)

\* The population (index in Simulation.populations) of an organism's species.
PopulationOf(o) ==
    CHOOSE p \in 1..NPop : populations[p].species_name = organisms[o].species_name

\* Every organism some population holds in living_individuals.
Living == UNION { Range(living_individuals[p]) : p \in 1..NPop }

\* A state right after an organism's advance_time (move, eat, reproduce).
AfterTick == ev.op = "advance_time"

\* A state right after Simulation.advance_epoch.
AfterRollover == ev.op = "advance_epoch"

\* A state at which the running Population.advance_time pass has ended.
PassEnded == pc = "populations" /\ ind_index > Len(living_individuals[pop_index])

\* C1: whenever an organism eats, every living organism of strictly lower
\* trophic level that is within its feeding range is in its neighbour list
\* (no predation opportunity is missed between refreshes).
C1_NoMissedPrey == AfterTick => ev.missed = {}

\* C2: an organism's tick turns is_alive off only for organisms of strictly
\* lower trophic level than the eater, and feeds only on such an organism.
C2_FeedingOutranks ==
    AfterTick =>
        \A q \in ev.killed \cup (IF ev.prey = 0 THEN {} ELSE {ev.prey}) :
            organisms[ev.who].trophic_level > organisms[q].trophic_level

\* C2 witness: a feeding event has just happened.
C2_Witness == AfterTick /\ ev.prey # 0 /\ ev.prey \in ev.killed

\* C3: a neighbour seen dead by eat is never consumed by it, and is no longer
\* in the eater's neighbour list when eat returns.
C3_DeadNeighbourDropped ==
    AfterTick =>
        /\ ev.prey \notin ev.seen_dead
        /\ \A d \in ev.seen_dead : d \notin Range(organisms[ev.who].neighbours)

\* C4: an offspring produced during the running epoch is in no
\* living_individuals until the rollover, and right after the rollover that
\* ends the epoch it is in its population's living_individuals exactly once.
C4_OffspringJoinAtRollover ==
    /\ \A b \in born : b.child \notin Living
    /\ AfterRollover =>
          \A b \in ev.born :
              /\ Count(living_individuals[PopulationOf(b.child)], b.child) = 1
              /\ \A p \in 1..NPop :
                    p # PopulationOf(b.child) => b.child \notin Range(living_individuals[p])

\* C4 witness: a rollover has admitted the offspring of a parent that was
\* eaten after reproducing, and the offspring of a parent that was not eaten.
C4_Witness ==
    /\ AfterRollover
    /\ \E b \in ev.born : b.parent \in ev.eaten
    /\ \E b \in ev.born : b.parent \notin ev.eaten

\* C5: right after a rollover every organism in living_individuals is alive.
C5_LivingAreAlive ==
    AfterRollover => \A o \in Living : organisms[o].is_alive

\* C6: a rollover started with L living and D dead organisms of a population,
\* whose offspring lists (of the living and the dead together) total K, leaves
\* L + K organisms in living_individuals and dead_individuals empty.
C6_RolloverCounts ==
    AfterRollover =>
        \A p \in 1..NPop :
            /\ Len(living_individuals[p]) = ev.living_before[p] + ev.offspring_before[p]
            /\ dead_individuals[p] = << >>

\* C6 witness: a rollover of a population with living organisms and with a
\* dead organism that carried offspring.
C6_Witness ==
    /\ AfterRollover
    /\ \E p \in 1..NPop : /\ ev.living_before[p] >= 1
                          /\ ev.dead_before[p] >= 1
                          /\ ev.dead_offspring_before[p] >= 1

\* C7: an organism eaten during an epoch is in no living_individuals after the
\* rollover that ends the epoch.
C7_EatenStayOut == AfterRollover => \A o \in ev.eaten : o \notin Living

\* C8: a Population.advance_time pass visits every organism that was in
\* living_individuals when it began exactly once, and when it ends none of
\* them that is not alive is still in living_individuals.
C8_PassVisitsEachOnce ==
    PassEnded =>
        \A o \in Range(pass_start) :
            /\ Count(pass_visited, o) = 1
            /\ ~ organisms[o].is_alive =>
                  /\ o \notin Range(living_individuals[pop_index])
                  /\ o \in Range(dead_individuals[pop_index])

\* C9: hunger changes only by a successful eat, which lowers the eater's
\* hunger by floor(prey.base_hunger / 5) + 1, once, and by the reset of a
\* rollover, which sets it to base_hunger.
C9_HungerChanges ==
    \A o \in DOMAIN ev.hunger_before :
        LET before == ev.hunger_before[o]
            now    == organisms[o].hunger
        IN  IF AfterTick /\ o = ev.who /\ ev.prey # 0
            THEN now = before - ((organisms[ev.prey].base_hunger \div 5) + 1)
            ELSE IF AfterRollover
                 THEN o \in Living => now = before \/ now = organisms[o].base_hunger
                 ELSE now = before

\* C9 witness: an organism has just eaten and its hunger has gone down.
C9_Witness ==
    /\ AfterTick
    /\ ev.prey # 0
    /\ organisms[ev.who].hunger < ev.hunger_before[ev.who]

\* C10: right after update_neighbours, the neighbour list of every organism
\* in living_individuals holds, once each, exactly the organisms in
\* living_individuals of strictly lower-trophic populations within
\* neighbour_range.
C10_RefreshRebuilds ==
    ev.refreshed =>
        \A p \in 1..NPop : \A o \in Range(living_individuals[p]) :
            /\ \A q \in Range(organisms[o].neighbours) :
                  Count(organisms[o].neighbours, q) = 1
            /\ Range(organisms[o].neighbours) =
                  { q \in Living :
                      /\ populations[p].trophic_level > organisms[q].trophic_level
                      /\ Abs(organisms[o].position - organisms[q].position)
                            <= neighbour_range }

\* C11: a refresh made by Simulation.advance_time (neighbour_update_ticks had
\* reached neighbour_update_interval) leaves neighbour_update_ticks at 0.
C11_RefreshResetsTicks ==
    (ev.op = "begin_tick" /\ ev.refreshed) => neighbour_update_ticks = 0

\* C12: Organism.reproduce leaves the offspring list unchanged when hunger > 0;
\* with hunger <= 0 and offspring_chance = 100 it appends exactly litter_size
\* new organisms that carry the parent's species parameters and each keep a
\* navigator object that no other organism keeps.
C12_ReproduceWhenSatiated ==
    AfterTick =>
        LET parent == organisms[ev.who] IN
        /\ parent.hunger > 0 => parent.offspring = ev.who_offspring
        /\ Len(parent.offspring) > Len(ev.who_offspring) => parent.hunger <= 0
        /\ (parent.hunger <= 0 /\ parent.offspring_chance = 100) =>
              /\ Len(parent.offspring) = Len(ev.who_offspring) + parent.litter_size
              /\ \A i \in 1..parent.litter_size :
                    LET child == organisms[parent.offspring[Len(ev.who_offspring) + i]] IN
                    /\ parent.offspring[Len(ev.who_offspring) + i] \notin Range(ev.who_offspring)
                    /\ \A j \in 1..parent.litter_size :
                          j # i => parent.offspring[Len(ev.who_offspring) + j]
                                     # parent.offspring[Len(ev.who_offspring) + i]
                    /\ child.species_name = parent.species_name
                    /\ child.trophic_level = parent.trophic_level
                    /\ child.speed = parent.speed
                    /\ child.base_hunger = parent.base_hunger
                    /\ child.feeding_range = parent.feeding_range
                    /\ child.feeding_chance = parent.feeding_chance
                    /\ child.offspring_chance = parent.offspring_chance
                    /\ child.litter_size = parent.litter_size
                    /\ child.navigator.x = parent.navigator.x
                    /\ \A q \in DOMAIN organisms :
                          organisms[q].navigator.instance = child.navigator.instance
                              => organisms[q] = child

\* C12 witness: a satiated parent with offspring_chance 100 and a litter of
\* two has just reproduced.
C12_Witness ==
    /\ AfterTick
    /\ organisms[ev.who].hunger <= 0
    /\ organisms[ev.who].offspring_chance = 100
    /\ organisms[ev.who].litter_size = 2
    /\ Len(ev.children) = 2

\* The largest speed among the species given to the constructor (0: none).
MaxSpeed ==
    Max({ 0 } \cup { cfg.populations_configs[p].speed :
                        p \in DOMAIN cfg.populations_configs })

\* C13: with zero populations, or with a maximum species speed of zero, the
\* constructor completes and neighbour_range is 0 (no neighbours possible).
C13_DegenerateRange ==
    (cfg.style \in Range(available_navigators) /\ MaxSpeed = 0) =>
        raised = NoException /\ neighbour_range = 0

\* C14: with a style that is not registered the constructor raises
\* UnknownEnvironment, whose message holds the style and every registered
\* style, and no population and no organism has been created.
C14_UnknownStyleFailsFirst ==
    cfg.style \notin Range(available_navigators) =>
        /\ raised.type = "UnknownEnvironment"
        /\ cfg.style \in Range(raised.message)
        /\ Range(available_navigators) \subseteq Range(raised.message)
        /\ populations = << >>
        /\ living_individuals = << >>
        /\ organisms = << >>
        /\ DOMAIN ids = {}

\* C14 witness: a constructor call with an unregistered style has ended.
C14_Witness ==
    /\ cfg.style \notin Range(available_navigators)
    /\ cfg.populations_configs # << >>
    /\ pc = "raised"

\* The model stops following a run whose next organism step would construct
\* more than MaxOrganisms organisms.
AtBound ==
    /\ pc = "populations"
    /\ ind_index <= Len(living_individuals[pop_index])
    /\ organisms[Individual].is_alive
    /\ \A r \in organism_advance_time(organisms, ids, Individual) :
          Len(r.organisms) > MaxOrganisms

\* A start_simulation call is in progress and has a next step to take.
Running == pc \in {"epochs", "populations"} /\ ~ AtBound

\* The interpreter keeps running the call in progress: weak fairness of Next
\* while a call runs, with the enabledness of Next written out as Running.
FairSpec == Spec /\ ([]<>(~ Running) \/ []<><<Next>>_vars)

\* What holds of the counters during and after a start_simulation(n) call.
CallCounts ==
    /\ AfterRollover => ev.ticks_before = cfg.time_per_epoch + 1
    /\ pc \in {"epochs", "populations"} =>
          /\ epoch = call.start_epoch + call.rollovers
          /\ epochs_to_run = call.requested - call.rollovers
    /\ ev.op = "return" =>
          /\ call.rollovers = call.requested
          /\ epoch = call.start_epoch + call.requested
          /\ time = 0
          /\ neighbour_update_ticks = 0
    /\ ev.op = "start_simulation" => epoch = call.start_epoch

\* C15: start_simulation(n) returns, after exactly n rollovers each preceded
\* by exactly time_per_epoch + 1 ticks; on return epoch has grown by n and
\* time and neighbour_update_ticks are 0; the next call starts from that epoch.
C15_StartSimulationTerminates ==
    /\ [] CallCounts
    /\ (pc \in {"epochs", "populations"}) ~> (pc = "idle" \/ AtBound)

\* C15 witness: a second start_simulation call, of two epochs' worth in all,
\* has returned.
C15_Witness ==
    /\ ev.op = "return"
    /\ starts = 2
    /\ call.requested >= 1
    /\ call.start_epoch >= 1

\* C16: one eat call consumes at most one organism, which was alive and had
\* not been eaten since the last rollover; an organism eaten earlier in the
\* epoch is never consumed again, whoever holds it in a neighbour list.
C16_FirstWriterWins ==
    AfterTick =>
        /\ Cardinality(ev.killed) <= 1
        /\ ev.prey # 0 => ev.killed = {ev.prey} /\ ev.prey \notin ev.eaten_before
        /\ ev.prey = 0 => /\ ev.killed = {}
                          /\ organisms[ev.who].hunger = ev.hunger_before[ev.who]
        /\ \A d \in ev.eaten_before : ~ organisms[d].is_alive

\* C16 witness: an eat call has found, in its neighbour list, a prey that
\* another predator had consumed earlier, and has seen it dead.
C16_Witness ==
    /\ AfterTick
    /\ \E d \in ev.seen_dead : d \in ev.eaten_before

\* C17: in every state no organism is in both living_individuals and
\* dead_individuals, no organism occurs twice in either list (of one
\* population or of two), and every organism in dead_individuals is not alive.
C17_ListsDisjoint ==
    \A p \in 1..NPop :
        /\ Range(living_individuals[p]) \cap Range(dead_individuals[p]) = {}
        /\ \A o \in Range(living_individuals[p]) : Count(living_individuals[p], o) = 1
        /\ \A o \in Range(dead_individuals[p]) :
              /\ Count(dead_individuals[p], o) = 1
              /\ ~ organisms[o].is_alive
        /\ \A q \in 1..NPop :
              q # p => (Range(living_individuals[p]) \cup Range(dead_individuals[p]))
                          \cap (Range(living_individuals[q]) \cup Range(dead_individuals[q]))
                       = {}

\* C17 witness: between two ticks, a population that holds living organisms,
\* dead ones, and an eaten organism among the dead.
C17_Witness ==
    /\ pc = "epochs"
    /\ \E p \in 1..NPop :
          /\ living_individuals[p] # << >>
          /\ \E o \in Range(dead_individuals[p]) : o \in eaten

\* C18: of two organisms of one species the one constructed later has the
\* larger id (so no two share an id), and the species' counter in Organism.ids
\* is above every id given out.
C18_IdsIncrease ==
    \A i \in DOMAIN organisms :
        /\ organisms[i].species_name \in DOMAIN ids
        /\ organisms[i].id < ids[organisms[i].species_name]
        /\ \A j \in DOMAIN organisms :
              (i < j /\ organisms[i].species_name = organisms[j].species_name)
                  => organisms[i].id < organisms[j].id

\* C18 witness: offspring of two species have been constructed after the
\* initial members of both populations.
C18_Witness ==
    \E i, j \in DOMAIN organisms :
        /\ organisms[i].species_name # organisms[j].species_name
        /\ \E b \in born : b.child = i
        /\ \E b \in born : b.child = j

\* C19: an eat call of an organism with feeding_chance 100 whose neighbour
\* list holds an organism that is alive, of strictly lower trophic level and
\* within feeding range consumes exactly one organism, the first such one in
\* list order, and lowers the eater's hunger by floor(prey.base_hunger/5) + 1.
C19_FirstEligibleEaten ==
    (AfterTick /\ organisms[ev.who].feeding_chance = 100 /\ ev.first_eligible # 0) =>
        /\ ev.prey = ev.first_eligible
        /\ ev.killed = {ev.first_eligible}
        /\ organisms[ev.who].hunger =
              ev.hunger_before[ev.who]
                  - ((organisms[ev.first_eligible].base_hunger \div 5) + 1)

\* C20: Simulation.populations is in descending trophic-level order; an
\* organism that runs its tick has not been eaten since the last rollover, and
\* an organism eaten by a tick belongs to a population whose pass comes later
\* in the same Simulation.advance_time.
C20_EatenDoNotAct ==
    /\ \A p, q \in 1..NPop :
          p < q => populations[p].trophic_level >= populations[q].trophic_level
    /\ AfterTick =>
          /\ ev.who \notin ev.eaten_before
          /\ PopulationOf(ev.who) = pop_index
          /\ \A q \in ev.killed : PopulationOf(q) > pop_index

\* C20 witness: a prey runs its tick in the pass that follows the pass in
\* which a predator ate another prey.
C20_Witness ==
    /\ AfterTick
    /\ pop_index = NPop
    /\ \E q \in ev.eaten_before : PopulationOf(q) = pop_index /\ q # ev.who

\* C21: an organism that Population.advance_time moves from living_individuals
\* to dead_individuals has had be_eaten applied to it since its construction
\* or its last reset.
C21_RemovedWereEaten ==
    ev.op = "remove_individual" => ev.who \in eaten


\* C22: a step that is an organism's advance_time (move, eat, reproduce)
\* leaves every other organism as it was, except that the prey it consumed
\* is no longer alive; and a step that changes an organism's neighbour list
\* is that organism's own advance_time, a neighbour refresh or the rollover
\* (reset followed by a refresh).
C22_TickFrame ==
    [][ /\ ev'.op = "advance_time" =>
            \A q \in DOMAIN organisms \ {ev'.who} :
                /\ organisms'[q] =
                      [organisms[q] EXCEPT !.is_alive = organisms'[q].is_alive]
                /\ organisms'[q].is_alive # organisms[q].is_alive =>
                      /\ q = ev'.prey
                      /\ ~ organisms'[q].is_alive
        /\ \A o \in DOMAIN organisms :
              organisms'[o].neighbours # organisms[o].neighbours =>
                  \/ ev'.op = "advance_time" /\ ev'.who = o
                  \/ ev'.refreshed
                  \/ ev'.op = "advance_epoch"
      ]_vars

\* C22 witness: in one tick an organism consumed a prey whose hunger is
\* positive and produced offspring, while another organism holds neighbours.
C22_Witness ==
    /\ AfterTick
    /\ ev.prey \in ev.killed
    /\ organisms[ev.prey].hunger > 0
    /\ ev.children # << >>
    /\ \E q \in DOMAIN organisms \ {ev.who, ev.prey} : organisms[q].neighbours # << >>


\* A step of Population.advance_time that calls remove_individual hands it an
\* organism that living_individuals holds and dead_individuals does not, and
\* the call does not raise.
PassRemovesOnce ==
    ev'.op = "remove_individual" =>
        /\ ev'.who \in Range(living_individuals[ev'.population])
        /\ ev'.who \notin Range(dead_individuals[ev'.population])
        /\ raised' = NoException

\* C23: a remove_individual call with an organism that is not in
\* living_individuals raises and leaves living_individuals and
\* dead_individuals as they were; and Population.advance_time never calls
\* remove_individual for an organism it has removed before.
C23_RemoveAbsentFails ==
    [][ /\ ( /\ ev'.op = "remove_individual_call"
             /\ ev'.who \notin Range(living_individuals[ev'.population]) ) =>
            /\ raised' # NoException
            /\ UNCHANGED << living_individuals, dead_individuals >>
        /\ PassRemovesOnce
      ]_vars

=============================================================================
